---- MODULE Spec2Model ----
(***************************************************************************)
(* A model of gochatbot's message dispatcher (bot/bot.go, Self.Process)    *)
(* and of its Slack transport connection (providers/slack.go).             *)
(*                                                                         *)
(* A text is a sequence of pieces (strings); a piece is one character, or  *)
(* a named run of characters (an entity, a template action, an id, a run   *)
(* of PadLen plain characters) whose encoded length JSONLen gives.         *)
(***************************************************************************)
EXTENDS Integers, Sequences, FiniteSets, Bags, TLC

\* ------------------------------------------------------------------ bounds
MaxCalls == 2      \* calls of Process the environment makes
MaxMsgs  == 2      \* inbound Messages offered on the inbound channels
MaxResp  == 2      \* responses one ParseMessage call returns, at most
MaxConns == 2      \* sockets dialed successfully over a run
MaxLookups == 2    \* lookup requests issued per user id
PadLen   == 16328  \* length of the run of plain characters "PAD"

None == "none"

\* The bot instances of the process, and the rules every instance is
\* constructed with, in registration order (s.rules).
Bots  == {1, 2}
rules == <<"r1", "r2">>
NumRules == Len(rules)

\* ------------------------------------------------------------ text helpers
HasPrefix(s, p) == Len(s) >= Len(p) /\ SubSeq(s, 1, Len(p)) = p

RECURSIVE Concat(_)
Concat(ss) == IF ss = <<>> THEN <<>> ELSE Head(ss) \o Concat(Tail(ss))

\* fmt.Sprintln(a, b): the operands separated by a space, then a newline.
Sprintln1(a) == a \o <<"\n">>
Sprintln2(a, b) == a \o <<" ">> \o b \o <<"\n">>

\* --------------------------------------------------------------- messages
Message(room, fromID, fromName, toID, toName, text, direct) ==
    [Room |-> room, FromUserID |-> fromID, FromUserName |-> fromName,
     ToUserID |-> toID, ToUserName |-> toName, Message |-> text,
     Direct |-> direct]

BotName == <<"b">>
HelpPrefix == BotName \o <<" ", "h", "e", "l", "p">>

\* The inbound Messages the environment offers.
InMsgs ==
    { Message("C1", "U1", "alice", "", "", <<"b", " ", "h", "e", "l", "p">>, FALSE),
      Message("D1", "U2", "bob", "", "", <<"b", " ", "h", "e", "l", "p", "e", "r">>, TRUE),
      Message("C1", "U2", "bob", "", "", <<"h", "e", "l", "p", " ", "b">>, FALSE) }

Tag == <<"1", "2", "3", "4", "5", "6">>

\* Response k a rule may give to msg: rules are external, their texts opaque.
Resp(rule, k, msg) ==
    Message(msg.Room, "", "", msg.FromUserID, msg.FromUserName,
            <<rule, ".", Tag[k]>>, FALSE)

\* What one call rule.ParseMessage(self, msg) may do: return a sequence of
\* Messages (here n distinct ones, n <= MaxResp), or panic.
ParseOutcomes(rule, msg) ==
    { [panic |-> TRUE, out |-> <<>>] } \cup
    { [panic |-> FALSE, out |-> [i \in 1..n |-> Resp(rule, i, msg)]] :
        n \in 0..MaxResp }

\* rule.HelpMessage(self): the rule's help text.
HelpMessage(rule) == <<"help of ", rule>>

\* ------------------------------------------------------------------ state
VARIABLES
    processOnce,  \* the package-level sync.Once: "fresh" or "running"
    calls,        \* the calls of Process made so far: [inst, pc]
    inOffer,      \* per instance: <<m>> while a sender blocks on providerIn with m
    nOffered,     \* Messages offered so far
    tasks,        \* the per-message goroutines: a bag of task records
    crashed       \* an unrecovered panic ended the process

botVars == <<processOnce, calls, inOffer, nOffered, tasks, crashed>>

\* The Slack connection (providerSlack).
VARIABLES
    ctorPc,       \* where Slack() is: "handshake", "dial", "start", "returned"
    wsURL,        \* p.wsURL
    selfID,       \* p.selfID
    wsConn,       \* p.wsConn: 0 is nil, n > 0 the n-th dialed socket
    err,          \* p.err: "nil" or the error last stored
    usernames,    \* p.usernames: a function from the cached ids to their names
    alive,        \* the dialed sockets that still carry writes (environment)
    connURL,      \* history: the URL each socket was dialed to
    intake,       \* the intake loop: its pc, its snapshot ws of p.wsConn, the frame's
                  \* room and user, the name resolved and whether the cache gave it
    dispatchPc,   \* the dispatch loop: "off", "recv", "write", "sleep"
    reconPc,      \* the supervisor: "off", "sleep", "probe", "handshake", "dial", "stopped"
    reconWs,      \* the supervisor's snapshot of p.wsConn
    startup,      \* history: <<handshake outcome, dial outcome>> of Slack()
    everFailed,   \* history: some handshake or dial has failed
    tickLog,      \* history: what the supervisor did since its last liveness check
    lookups,      \* history: per user id, [reqs, oks, last] of its lookup requests
    lastOut,      \* history: what the dispatch loop did with the last Message
    attempt,      \* history: the last handshake's outcome, the URL dialed since
                  \* and how that dial call ended
    writes,       \* history: the frame writes of the dispatch loop and their gaps
    handed,       \* history: the last frame decoded, the Messages handed in for it
    observed,     \* what the caller of Slack() last read through Error()
    staleOps      \* history: per loop, its I/O on a handle since replaced

connVars == <<ctorPc, wsURL, selfID, wsConn, err, usernames, alive, connURL, intake,
              dispatchPc, reconPc, reconWs, startup, everFailed, tickLog, lookups,
              lastOut, attempt, writes, handed, observed, staleOps>>

vars == <<botVars, connVars>>

InitBot ==
    /\ processOnce = "fresh"
    /\ calls = <<>>
    /\ inOffer = [b \in Bots |-> <<>>]
    /\ nOffered = 0
    /\ tasks = EmptyBag
    /\ crashed = FALSE

UserIDs == {"U1", "U2"}

Loops == {"intake", "dispatch", "reconnect"}

NoStaleOps == [l \in Loops |-> 0]

\* Loop l has done I/O on its snapshot ws of the handle: one more on a handle
\* since replaced if ws is not the handle now (counted up to 2).
AfterIO(l, ws) ==
    IF ws = wsConn THEN staleOps
    ELSE [staleOps EXCEPT ![l] = IF @ < 2 THEN @ + 1 ELSE @]

\* No frame written yet. Once one is: the room it went to, the pauses slept
\* and whether a Message was dropped since, and (gap) the same two and the
\* room of the write before it, as they stood when this write was made.
NoWrite ==
    [any |-> FALSE, room |-> "", pauses |-> 0, dropped |-> FALSE, gap |-> <<>>]

InitConn ==
    /\ ctorPc = "handshake"
    /\ wsURL = ""
    /\ selfID = ""
    /\ wsConn = 0
    /\ err = "nil"
    /\ usernames = <<>>
    /\ alive = {}
    /\ connURL = <<>>
    /\ intake = [pc |-> "off", ws |-> 0, room |-> "", user |-> "", text |-> <<>>,
                 name |-> "", hit |-> FALSE]
    /\ dispatchPc = "off"
    /\ reconPc = "off"
    /\ reconWs = 0
    /\ startup = <<>>
    /\ everFailed = FALSE
    /\ tickLog = <<>>
    /\ lookups = [id \in UserIDs |-> [reqs |-> 0, oks |-> 0, last |-> None]]
    /\ lastOut = [action |-> None, msg |-> <<>>, ws |-> 0, len |-> 0, text |-> <<>>]
    /\ attempt = [hs |-> None, dialed |-> "", result |-> None]
    /\ writes = NoWrite
    /\ handed = [frame |-> <<>>, msgs |-> <<>>]
    /\ observed = None
    /\ staleOps = NoStaleOps

Init == InitBot /\ InitConn

Looping(b) == \E i \in DOMAIN calls : calls[i].inst = b /\ calls[i].pc = "loop"

\* ---------------------------------------------------------------- Process
\* s.Process(): processOnce.Do(f). The first caller runs f, the receive loop,
\* holding the Once's mutex; f never returns (nothing closes providerIn), so
\* every later caller, of any instance, blocks in Do.
OnceDo(b) ==
    IF processOnce = "fresh"
    THEN /\ processOnce' = "running"
         /\ calls' = Append(calls, [inst |-> b, pc |-> "loop"])
    ELSE /\ processOnce' = processOnce
         /\ calls' = Append(calls, [inst |-> b, pc |-> "blocked"])

Process(b) ==
    /\ ~crashed
    /\ Len(calls) < MaxCalls
    /\ OnceDo(b)
    /\ UNCHANGED <<inOffer, nOffered, tasks, crashed, connVars>>

\* A sender (the provider's intake loop) blocks on instance b's providerIn.
Offer(b, m) ==
    /\ ~crashed
    /\ nOffered < MaxMsgs
    /\ inOffer[b] = <<>>
    /\ inOffer' = [inOffer EXCEPT ![b] = <<m>>]
    /\ nOffered' = nOffered + 1
    /\ UNCHANGED <<processOnce, calls, tasks, crashed, connVars>>

\* A plausible slip: the help command matched by equality, not by prefix.
IsHelp_Eq(m) == m.Message = HelpPrefix

\* strings.HasPrefix(in.Message, s.Name()+" help")
IsHelp(m) == HasPrefix(m.Message, HelpPrefix)

Tasks == BagToSet(tasks)

\* The goroutine started for m. ri is the rule the loop over s.rules is at,
\* pending the responses of that rule not yet sent, results the outcome of
\* every ParseMessage call made (history), sent the Messages the goroutine has
\* sent on providerOut, in order (history), panicsBefore whether a goroutine
\* had already panicked when m was received (history).
NewTask(b, m) ==
    [bot |-> b, msg |-> m,
     kind |-> IF IsHelp(m) THEN "help" ELSE "rules",
     pc |-> IF IsHelp(m) THEN "help" ELSE "eval",
     ri |-> 1, pending |-> <<>>, results |-> <<>>, sent |-> <<>>,
     panicsBefore |-> \E x \in Tasks : x.pc = "recovered"]

\* A plausible slip: the Message handled in the loop itself, which then
\* receives again only once that is done.
LoopFree_Inline(b) == \A x \in Tasks : x.bot = b => x.pc \in {"done", "recovered"}

\* `go func(...) {...}(...)`: the loop waits on none of the goroutines it
\* has started.
LoopFree(b) == TRUE

\* One iteration of `for in := range s.providerIn`: the loop of instance b
\* receives the offered Message and starts its goroutine.
Receive(b) ==
    /\ ~crashed
    /\ Looping(b)
    /\ LoopFree(b)
    /\ inOffer[b] # <<>>
    /\ tasks' = tasks (+) SetToBag({NewTask(b, inOffer[b][1])})
    /\ inOffer' = [inOffer EXCEPT ![b] = <<>>]
    /\ UNCHANGED <<processOnce, calls, nOffered, crashed, connVars>>

\* The goroutines after one of them, task, has stepped to new.
Step(task, new) == (tasks (-) SetToBag({task})) (+) SetToBag({new})

\* Where the goroutine goes once `pend` is what is left to send of rule ri.
Advance(task, pend) ==
    IF pend # <<>> THEN [task EXCEPT !.pending = pend, !.pc = "send"]
    ELSE IF task.kind = "rules" /\ task.ri < NumRules
    THEN [task EXCEPT !.pending = <<>>, !.ri = task.ri + 1, !.pc = "eval"]
    ELSE [task EXCEPT !.pending = <<>>, !.pc = "done"]

\* A plausible slip: no deferred recover, the panic ends the process.
OnPanic_NoRecover(task, o) ==
    /\ tasks' = Step(task, [task EXCEPT !.results = Append(@, o), !.pc = "panicked"])
    /\ crashed' = TRUE

\* The deferred func of the rules goroutine: recover() catches the panic,
\* logs it, and the goroutine ends.
OnPanic(task, o) ==
    /\ tasks' = Step(task, [task EXCEPT !.results = Append(@, o), !.pc = "recovered"])
    /\ crashed' = crashed

\* responses := rule.ParseMessage(self, msg), for the rule the loop is at.
EvalRule(task) ==
    /\ ~crashed
    /\ task.pc = "eval"
    /\ \E res \in ParseOutcomes(rules[task.ri], task.msg) :
         LET o == [rule |-> task.ri, panic |-> res.panic, out |-> res.out] IN
         IF o.panic
         THEN OnPanic(task, o)
         ELSE /\ tasks' = Step(task, Advance([task EXCEPT !.results = Append(@, o)], o.out))
              /\ crashed' = crashed
    /\ UNCHANGED <<processOnce, calls, inOffer, nOffered, connVars>>

\* The help text: Sprintln("available commands:"), then per rule
\* helpMsg = Sprintln(helpMsg, rule.HelpMessage(self)).
RECURSIVE HelpText(_)
HelpText(n) ==
    IF n = 0 THEN Sprintln1(<<"available commands:">>)
    ELSE Sprintln2(HelpText(n - 1), HelpMessage(rules[n]))

HelpReply(msg) ==
    Message(msg.Room, "", "", msg.FromUserID, msg.FromUserName,
            HelpText(NumRules), FALSE)

\* The help goroutine up to its send. It has no recover: a HelpMessage that
\* panics ends the process.
BuildHelp(task) ==
    /\ ~crashed
    /\ task.pc = "help"
    /\ \/ /\ tasks' = Step(task, Advance(task, <<HelpReply(task.msg)>>))
          /\ crashed' = crashed
       \/ /\ tasks' = Step(task, [task EXCEPT !.pc = "panicked"])
          /\ crashed' = TRUE
    /\ UNCHANGED <<processOnce, calls, inOffer, nOffered, connVars>>

\* A plausible slip: the responses of one rule sent last to first.
NextResponse_Last(pending) == pending[Len(pending)]

\* `for _, r := range responses`: the next response to send.
NextResponse(pending) == Head(pending)

\* s.providerOut <- r: the channel is unbuffered, so the send is one step with
\* the receive of whoever drains providerOut (until then the goroutine waits).
Send(task) ==
    /\ ~crashed
    /\ task.pc = "send"
    /\ tasks' = Step(task, Advance([task EXCEPT !.sent = Append(@, NextResponse(task.pending))],
                                   Tail(task.pending)))
    /\ UNCHANGED <<processOnce, calls, inOffer, nOffered, crashed, connVars>>

\* The first call of Process in the process: the one that starts a loop.
StartLoop(b) == calls = <<>> /\ Process(b)

\* The dispatcher once Process has been called: one receive loop and its tasks.
NextBot ==
    \/ \E b \in Bots : StartLoop(b)
    \/ \E b \in Bots, m \in InMsgs : Offer(b, m)
    \/ \E b \in Bots : Receive(b)
    \/ \E task \in Tasks : EvalRule(task)
    \/ \E task \in Tasks : BuildHelp(task)
    \/ \E task \in Tasks : Send(task)

SpecBot == Init /\ [][NextBot]_vars

\* The receive loop is a goroutine the scheduler keeps running: a Message
\* it can receive it does receive.
SpecBotFair == SpecBot /\ \A b \in Bots : WF_vars(Receive(b))

\* The dispatcher with Process called any number of times, on any instance.
NextCalls ==
    \/ \E b \in Bots : Process(b)
    \/ \E b \in Bots, m \in InMsgs : Offer(b, m)
    \/ \E b \in Bots : Receive(b)
    \/ \E task \in Tasks : EvalRule(task)
    \/ \E task \in Tasks : BuildHelp(task)
    \/ \E task \in Tasks : Send(task)

SpecCalls == Init /\ [][NextCalls]_vars

\* ------------------------------------------------- claims on the dispatcher
StartsWithHelp(m) ==
    Len(m.Message) >= Len(HelpPrefix)
    /\ \A i \in 1..Len(HelpPrefix) : m.Message[i] = HelpPrefix[i]

Faulted(task) == \E i \in DOMAIN task.results : task.results[i].panic

\* The concatenation of the results of the first n ParseMessage calls of task.
Outs(task, n) == Concat([i \in 1..n |-> task.results[i].out])

\* What task has sent, and what it has yet to send of the rule it is at, are
\* the results of the rules called so far, rule after rule in registration
\* order; a finished task has called every rule and sent it all.
OutputInOrder(task) ==
    /\ \A i \in DOMAIN task.results :
         /\ task.results[i].rule = i
         /\ \A k \in DOMAIN task.results[i].out :
              task.results[i].out[k] = Resp(rules[i], k, task.msg)
    /\ task.sent \o task.pending = Outs(task, Len(task.results))
    /\ task.pc = "done" =>
         /\ Len(task.results) = NumRules
         /\ task.sent = Outs(task, NumRules)

\* C1: for a non-help inbound Message whose rules do not fault, the Messages
\* its task sends on the outbound channel are, in every interleaving with
\* other tasks, the concatenation in rule-registration order of each rule's
\* ParseMessage result, the order inside each result preserved.
C1_ResponsesInRuleOrder ==
    \A task \in Tasks :
        (~StartsWithHelp(task.msg) /\ ~Faulted(task)) => OutputInOrder(task)

\* Two tasks are in flight; one has finished after sending three Messages of
\* two rules while the other, having sent too, is still between its sends.
C1_Witness ==
    \E t1, t2 \in Tasks :
        /\ ~StartsWithHelp(t1.msg) /\ ~Faulted(t1) /\ t1.pc = "done"
        /\ Len(t1.sent) >= 3
        /\ Len(t1.results[1].out) >= 1 /\ Len(t1.results[2].out) >= 2
        /\ t2.pc = "send" /\ Len(t2.sent) >= 1

\* C2: an inbound Message whose text starts with "<botName> help" gets exactly
\* one outbound Message, in its room and addressed to its sender, and no
\* rule's ParseMessage is called for it.
C2_HelpOneReplyNoRules ==
    \A task \in Tasks :
        StartsWithHelp(task.msg) =>
            /\ task.results = <<>>
            /\ Len(task.sent) <= 1
            /\ task.pc = "done" => Len(task.sent) = 1
            /\ \A i \in DOMAIN task.sent :
                 /\ task.sent[i].Room = task.msg.Room
                 /\ task.sent[i].ToUserID = task.msg.FromUserID
                 /\ task.sent[i].ToUserName = task.msg.FromUserName

\* The help reply to a Message that only starts with the help command has
\* been sent.
C2_Witness ==
    \E task \in Tasks :
        /\ StartsWithHelp(task.msg) /\ task.msg.Message # HelpPrefix
        /\ task.pc = "done" /\ Len(task.sent) = 1
        /\ task.sent[1].ToUserID = "U2" /\ task.sent[1].Room = "D1"

\* A task in which rule i panicked has ended by its recover: rules 1..i were
\* called and none after, and the responses of the rules before i are sent.
FaultContained(task) ==
    LET i == Len(task.results) IN
    /\ task.pc = "recovered"
    /\ task.results[i].panic
    /\ \A j \in 1..i : task.results[j].rule = j /\ (j < i => ~task.results[j].panic)
    /\ task.pending = <<>>
    /\ task.sent = Outs(task, i - 1)

C3_Inv ==
    /\ \A task \in Tasks : Faulted(task) => FaultContained(task)
    /\ (\E task \in Tasks : Faulted(task)) =>
         /\ \A other \in Tasks :
              (~StartsWithHelp(other.msg) /\ ~Faulted(other)) => OutputInOrder(other)
         /\ \A b \in Bots :
              (Looping(b) /\ inOffer[b] # <<>> /\ ~crashed) => ENABLED Receive(b)

\* A step in which a rule panics changes that task alone; a task that has
\* faulted never moves again.
C3_Step ==
    /\ \A task \in Tasks : Faulted(task) => CopiesIn(task, tasks') >= CopiesIn(task, tasks)
    /\ (\E new \in BagToSet(tasks') : Faulted(new) /\ CopiesIn(new, tasks') > CopiesIn(new, tasks)) =>
         /\ crashed' = crashed /\ ~crashed'
         /\ processOnce' = processOnce /\ calls' = calls /\ inOffer' = inOffer
         /\ \E task \in Tasks, new \in BagToSet(tasks') :
              /\ task.pc = "eval" /\ tasks' = Step(task, new)
              /\ new.sent = task.sent /\ new.msg = task.msg

\* C3: a panic of rule i on inbound Message m is caught at the boundary of m's
\* task: the process does not crash, the receive loop keeps consuming, other
\* tasks still produce all their output, the responses of the rules before i
\* were forwarded, and no rule after i is evaluated for m.
C3_PanicIsolated == []C3_Inv /\ [][C3_Step]_vars

\* Rule 2 panicked on one Message after rule 1's response went out; a Message
\* received after that panic has been answered in full.
C3_Witness ==
    \E t1, t2 \in Tasks :
        /\ t1.pc = "recovered" /\ Len(t1.results) = 2 /\ Len(t1.sent) >= 1
        /\ t2.panicsBefore /\ ~Faulted(t2) /\ t2.pc = "done" /\ Len(t2.sent) >= 2
        /\ ~crashed

\* C4 (as claimed): every instance Process was called on runs its own receive
\* loop, and no call of Process is left waiting.
C4_EveryInstanceLoops ==
    /\ \A i \in DOMAIN calls : Looping(calls[i].inst)
    /\ \A i \in DOMAIN calls : calls[i].pc # "blocked"

C19_Ready ==
    \A b \in Bots :
        (Looping(b) /\ inOffer[b] # <<>> /\ ~crashed) => ENABLED Receive(b)

C19_Accepted ==
    \A b \in Bots :
        (Looping(b) /\ inOffer[b] # <<>>) ~> (inOffer[b] = <<>> \/ crashed)

\* C19: the receive loop of a running dispatcher waits on no task: whatever
\* tasks are evaluating rules or blocked sending on the outbound channel, it
\* is ready to receive, so a Message offered on its inbound channel is
\* eventually received and given its own task.
C19_LoopNeverWaitsOnTasks == []C19_Ready /\ C19_Accepted

\* Two Messages of one instance have their tasks, both blocked on their
\* first send with nothing draining the channel: the later of the two was
\* received while the task of the other was in flight.
C19_Witness ==
    \E t1, t2 \in Tasks :
        /\ t1 # t2 /\ t1.bot = t2.bot
        /\ t1.pc = "send" /\ t1.sent = <<>>
        /\ t2.pc = "send" /\ t2.sent = <<>>
        /\ \A b \in Bots : inOffer[b] = <<>>
        /\ ~crashed

\* The help text as claimed: the header line, then each rule's help text in
\* registration order, each followed by a newline and nothing else.
HelpAsClaimed ==
    <<"available commands:", "\n">> \o
    Concat([i \in 1..NumRules |-> HelpMessage(rules[i]) \o <<"\n">>])

\* C13 (as claimed): the text of every help reply is the header line followed
\* by each rule's help text in registration order, each terminated by a
\* newline, with no other character added.
C13_HelpTextExact ==
    \A task \in Tasks :
        StartsWithHelp(task.msg) =>
            \A i \in DOMAIN task.sent : task.sent[i].Message = HelpAsClaimed

\* ------------------------------------------------- the Slack connection
\* What the rtm.start request may bring: a transport error, a body that does
\* not decode, an ok field that is false or no boolean, or ok with a URL
\* (possibly empty) and the bot's id.
HsOutcomes ==
    { [kind |-> k, url |-> "", id |-> ""] :
        k \in {"neterr", "badjson", "okfalse", "oknotbool"} } \cup
    { [kind |-> "ok", url |-> u, id |-> "B1"] : u \in {"", "u1", "u2"} }

HsFailed(o) == o.kind # "ok"

\* p.err after handshake(). On a response that is not ok the code assigns
\* `p.err = err` with the err of http.Get, which is nil there.
HandshakeErr(o, e) ==
    CASE o.kind = "neterr" -> "net"
      [] o.kind = "badjson" -> "json"
      [] o.kind \in {"okfalse", "oknotbool"} -> "nil"
      [] OTHER -> e

\* p.handshake()
handshake(o) ==
    /\ err' = HandshakeErr(o, err)
    /\ wsURL' = IF HsFailed(o) THEN wsURL ELSE o.url
    /\ selfID' = IF HsFailed(o) THEN selfID ELSE o.id
    /\ attempt' = [hs |-> IF HsFailed(o) THEN "failed" ELSE "ok", dialed |-> "",
                   result |-> None]

DialOutcomes == {"ok", "fail"}

DialFails(d) == wsURL = "" \/ d = "fail"

\* A plausible slip: a dial that fails clears the handle.
dial_NilOnFailure(d) ==
    /\ d = "ok" => Len(connURL) < MaxConns
    /\ attempt' = [attempt EXCEPT !.dialed = wsURL,
                                  !.result = IF DialFails(d) THEN "failed" ELSE "ok"]
    /\ IF DialFails(d)
       THEN /\ err' = IF wsURL = "" THEN "nourl" ELSE "dial"
            /\ wsConn' = 0
            /\ UNCHANGED <<connURL, alive, staleOps>>
       ELSE /\ wsConn' = Len(connURL) + 1
            /\ staleOps' = NoStaleOps
            /\ connURL' = Append(connURL, wsURL)
            /\ alive' = alive \cup {Len(connURL) + 1}
            /\ err' = err

\* p.dial(): no dial without a URL; a socket dialed is stored under wsConnMu.
dial(d) ==
    /\ d = "ok" => Len(connURL) < MaxConns
    /\ attempt' = [attempt EXCEPT !.dialed = wsURL,
                                  !.result = IF DialFails(d) THEN "failed" ELSE "ok"]
    /\ IF wsURL = ""
       THEN err' = "nourl" /\ UNCHANGED <<wsConn, connURL, alive, staleOps>>
       ELSE IF d = "fail"
       THEN err' = "dial" /\ UNCHANGED <<wsConn, connURL, alive, staleOps>>
       ELSE /\ wsConn' = Len(connURL) + 1
            /\ staleOps' = NoStaleOps
            /\ connURL' = Append(connURL, wsURL)
            /\ alive' = alive \cup {Len(connURL) + 1}
            /\ err' = err

\* Slack(): slack.handshake()
CtorHandshake ==
    /\ ~crashed
    /\ ctorPc = "handshake"
    /\ \E o \in HsOutcomes :
         /\ handshake(o)
         /\ startup' = <<o.kind>>
         /\ everFailed' = (everFailed \/ HsFailed(o))
    /\ ctorPc' = "dial"
    /\ UNCHANGED <<wsConn, usernames, alive, connURL, intake, dispatchPc, reconPc,
                   reconWs, tickLog, lookups, lastOut, botVars,
                   writes, handed, observed, staleOps>>

\* Slack(): slack.dial()
CtorDial ==
    /\ ~crashed
    /\ ctorPc = "dial"
    /\ \E d \in DialOutcomes :
         /\ dial(d)
         /\ startup' = Append(startup, IF DialFails(d) THEN "fail" ELSE "ok")
         /\ everFailed' = (everFailed \/ DialFails(d))
    /\ ctorPc' = "start"
    /\ UNCHANGED <<wsURL, selfID, usernames, intake, dispatchPc, reconPc, reconWs,
                   tickLog, lookups, lastOut, botVars,
                   writes, handed, observed>>

\* `if slack.err == nil`: whether Slack() starts the intake and dispatch loops.
LoopsStart(e) == e = "nil"

IntakeIdle(pc) ==
    [pc |-> pc, ws |-> 0, room |-> "", user |-> "", text |-> <<>>, name |-> "",
     hit |-> FALSE]

\* Slack(): the go statements and the return.
CtorStart ==
    /\ ~crashed
    /\ ctorPc = "start"
    /\ intake' = IF LoopsStart(err) THEN IntakeIdle("snap") ELSE intake
    /\ dispatchPc' = IF LoopsStart(err) THEN "recv" ELSE dispatchPc
    /\ reconPc' = "sleep"
    /\ ctorPc' = "returned"
    /\ UNCHANGED <<wsURL, selfID, wsConn, err, usernames, alive, connURL, reconWs,
                   startup, everFailed, tickLog, lookups, lastOut, botVars,
                   attempt, writes, handed, observed, staleOps>>

\* A plausible slip: the handle read once, when the loop starts.
Snapshot_First(cur) == IF cur = 0 THEN 0 ELSE 1

\* wsConnMu.Lock(); wsConn := p.wsConn; wsConnMu.Unlock()
Snapshot(cur) == cur

\* The environment: a dialed socket stops carrying writes.
KillConn(c) ==
    /\ ~crashed
    /\ c \in alive
    /\ alive' = alive \ {c}
    /\ UNCHANGED <<ctorPc, wsURL, selfID, wsConn, err, usernames, connURL, intake,
                   dispatchPc, reconPc, reconWs, startup, everFailed, tickLog,
                   lookups, lastOut, botVars,
                   attempt, writes, handed, observed, staleOps>>

\* A plausible slip: the supervisor goes on without a handle.
AfterSnapshot_NoBreak(ws) == "probe"

\* `if wsConn == nil { log.Println("slack: cannot reconnect"); break }`
AfterSnapshot(ws) == IF ws = 0 THEN "stopped" ELSE "probe"

\* reconnect(): the 1-second sleep, the snapshot of p.wsConn under wsConnMu,
\* and the break when it is nil.
ReconTick ==
    /\ ~crashed
    /\ reconPc = "sleep"
    /\ reconWs' = Snapshot(wsConn)
    /\ reconPc' = AfterSnapshot(Snapshot(wsConn))
    /\ UNCHANGED <<ctorPc, wsURL, selfID, wsConn, err, usernames, alive, connURL,
                   intake, dispatchPc, startup, everFailed, tickLog, lookups,
                   lastOut, botVars,
                   attempt, writes, handed, observed, staleOps>>

\* A plausible slip: handshake and dial run on every tick.
AfterProbe_Always(ok) == "handshake"

\* `if _, err := wsConn.Write(hello); err != nil { p.handshake(); p.dial() }`
AfterProbe(ok) == IF ok THEN "sleep" ELSE "handshake"

\* reconnect(): the liveness write on the snapshot.
ReconProbe ==
    /\ ~crashed
    /\ reconPc = "probe"
    /\ tickLog' = <<IF reconWs \in alive THEN "probe ok" ELSE "probe failed">>
    /\ reconPc' = AfterProbe(reconWs \in alive)
    /\ staleOps' = AfterIO("reconnect", reconWs)
    /\ UNCHANGED <<ctorPc, wsURL, selfID, wsConn, err, usernames, alive, connURL,
                   intake, dispatchPc, reconWs, startup, everFailed, lookups,
                   lastOut, botVars,
                   attempt, writes, handed, observed>>

\* reconnect(): p.handshake()
ReconHandshake ==
    /\ ~crashed
    /\ reconPc = "handshake"
    /\ \E o \in HsOutcomes :
         /\ handshake(o)
         /\ everFailed' = (everFailed \/ HsFailed(o))
    /\ tickLog' = Append(tickLog, "handshake")
    /\ reconPc' = "dial"
    /\ UNCHANGED <<ctorPc, wsConn, usernames, alive, connURL, intake, dispatchPc,
                   reconWs, startup, lookups, lastOut, botVars,
                   writes, handed, observed, staleOps>>

\* reconnect(): p.dial()
ReconDial ==
    /\ ~crashed
    /\ reconPc = "dial"
    /\ \E d \in DialOutcomes :
         /\ dial(d)
         /\ everFailed' = (everFailed \/ DialFails(d))
    /\ tickLog' = Append(tickLog, "dial")
    /\ reconPc' = "sleep"
    /\ UNCHANGED <<ctorPc, wsURL, selfID, usernames, intake, dispatchPc, reconWs,
                   startup, lookups, lastOut, botVars,
                   writes, handed, observed>>

\* ------------------------------------------------------------ intake loop
\* What json.NewDecoder(wsConn).Decode brings: an error, a frame of another
\* type, or a frame of type "message".
Frames ==
    { [type |-> t, channel |-> "", user |-> "", text |-> <<>>] :
        t \in {"error", "hello"} } \cup
    { [type |-> "message", channel |-> c, user |-> u, text |-> t] :
        c \in {"C1", "D1"}, u \in UserIDs, t \in {<<"h", "i">>, <<"y", "o">>} }

\* A plausible slip: every frame that decodes is taken for a Message.
Accepted_AnyDecoded(f) == f.type # "error"

\* `if err != nil { continue }` and `if data.Type != "message" { continue }`
Accepted(f) == f.type = "message"

ChannelChars(c) == IF c = "D1" THEN <<"D", "1">> ELSE <<"C", "1">>

\* strings.HasPrefix(data.Channel, "D")
IsDirect(c) == HasPrefix(ChannelChars(c), <<"D">>)

\* intakeLoop: the snapshot of p.wsConn under wsConnMu.
IntakeSnap ==
    /\ ~crashed
    /\ intake.pc = "snap"
    /\ intake' = [IntakeIdle("decode") EXCEPT !.ws = Snapshot(wsConn)]
    /\ UNCHANGED <<ctorPc, wsURL, selfID, wsConn, err, usernames, alive, connURL,
                   dispatchPc, reconPc, reconWs, startup, everFailed, tickLog,
                   lookups, lastOut, botVars,
                   attempt, writes, handed, observed, staleOps>>

\* intakeLoop: Decode on the snapshot, then the type test. A socket that is
\* gone gives an error.
IntakeDecodeOf(F) ==
    /\ ~crashed
    /\ intake.pc = "decode"
    /\ staleOps' = AfterIO("intake", intake.ws)
    /\ \E f \in F :
         /\ intake.ws \notin alive => f.type = "error"
         /\ intake' = IF Accepted(f)
                      THEN [intake EXCEPT !.pc = "lookup", !.room = f.channel,
                                          !.user = f.user, !.text = f.text]
                      ELSE IntakeIdle("snap")
         /\ handed' = [frame |-> <<f>>, msgs |-> <<>>]
    /\ UNCHANGED <<ctorPc, wsURL, selfID, wsConn, err, usernames, alive, connURL,
                   dispatchPc, reconPc, reconWs, startup, everFailed, tickLog,
                   lookups, lastOut, botVars,
                   attempt, writes, observed>>

IntakeDecode == IntakeDecodeOf(Frames)

\* The frames that are no Message: a decode error and a frame of another type.
ControlFrames == { f \in Frames : f.type # "message" }

RealName(id) == IF id = "U1" THEN "alice" ELSE "bob"

\* What the users.info request for id may bring: a transport error, a body
\* that does not decode, or a decoded body, ok or not (no user in it then).
LookupOutcomes(id) ==
    { [kind |-> k, name |-> ""] : k \in {"neterr", "badjson", "okfalse"} } \cup
    { [kind |-> "ok", name |-> RealName(id)] }

Put(cache, id, name) == [x \in DOMAIN cache \cup {id} |-> IF x = id THEN name ELSE cache[x]]

\* A plausible slip: the name looked up is returned and never stored.
CacheAfter_NoStore(cache, id, o) == cache

\* getUserName after the request: the two early returns leave the cache as
\* it is; a body that decoded is stored under mu, its ok field never read.
CacheAfter(cache, id, o) ==
    IF o.kind \in {"neterr", "badjson"} THEN cache ELSE Put(cache, id, o.name)

\* getUserName's result after outcome o.
NameAfter(id, o) == IF o.kind \in {"neterr", "badjson"} THEN "" ELSE o.name

\* intakeLoop: p.getUserName(data.UserID), whole. A hit returns the cached
\* name; a miss issues one request.
IntakeLookup ==
    /\ ~crashed
    /\ intake.pc = "lookup"
    /\ LET id == intake.user IN
       IF id \in DOMAIN usernames
       THEN /\ intake' = [intake EXCEPT !.pc = "send", !.name = usernames[id],
                                          !.hit = TRUE]
            /\ UNCHANGED <<usernames, lookups>>
       ELSE /\ lookups[id].reqs < MaxLookups
            /\ \E o \in LookupOutcomes(id) :
                 /\ usernames' = CacheAfter(usernames, id, o)
                 /\ lookups' = [lookups EXCEPT ![id] =
                        [reqs |-> @.reqs + 1,
                         oks |-> @.oks + (IF o.kind = "ok" THEN 1 ELSE 0),
                         last |-> o.kind]]
                 /\ intake' = [intake EXCEPT !.pc = "send", !.name = NameAfter(id, o)]
    /\ UNCHANGED <<ctorPc, wsURL, selfID, wsConn, err, alive, connURL, dispatchPc,
                   reconPc, reconWs, startup, everFailed, tickLog, lastOut, botVars,
                   attempt, writes, handed, observed, staleOps>>

\* intakeLoop: p.in <- msg, one step with the receive of whoever drains p.in.
IntakeSend ==
    /\ ~crashed
    /\ intake.pc = "send"
    /\ handed' = [handed EXCEPT !.msgs =
                    Append(@, Message(intake.room, intake.user, intake.name, "", "",
                                      intake.text, IsDirect(intake.room)))]
    /\ intake' = IntakeIdle("snap")
    /\ UNCHANGED <<ctorPc, wsURL, selfID, wsConn, err, usernames, alive, connURL,
                   dispatchPc, reconPc, reconWs, startup, everFailed, tickLog,
                   lookups, lastOut, botVars,
                   attempt, writes, observed, staleOps>>

\* ---------------------------------------------------------- dispatch loop
\* The outbound Messages the environment hands to p.out.
OutTexts ==
    { <<"h", "i">>, <<>>, <<" ", "\n">>, <<"&nbsp;">>,
      <<"{{.User}}", " ", "h", "i">>, <<"{{">>,
      <<"PAD">>, <<"PAD", "a">>, <<"PAD", "a", "a">>, <<"PAD", "&amp;">> }

OutMsgs ==
    { Message("C1", "", "", "U1", "alice", t, FALSE) : t \in OutTexts } \cup
    { Message("D1", "", "", "U2", "bob", <<"h", "i">>, FALSE) }

\* template.Must(template.New("tmpl").Parse(text)) panics on a text that is
\* no template.
BadTemplate(text) == \E i \in DOMAIN text : text[i] = "{{"

\* Execute with {User: "<@" + toID + ">"}: html/template escapes the value of
\* the action, the text around it is copied.
Render(text, toID) ==
    Concat([i \in DOMAIN text |->
              IF text[i] = "{{.User}}" THEN <<"&lt;", "@", toID, "&gt;">>
              ELSE <<text[i]>>])

UnescapePiece(p) ==
    CASE p = "&lt;" -> "<"
      [] p = "&gt;" -> ">"
      [] p = "&amp;" -> "&"
      [] p = "&nbsp;" -> "NBSP"
      [] OTHER -> p

\* html.UnescapeString
Unescape(text) == [i \in DOMAIN text |-> UnescapePiece(text[i])]

\* strings.TrimSpace(s) == "": every character is white space (unicode.IsSpace,
\* the no-break space U+00A0 included).
Blank(text) == \A i \in DOMAIN text : text[i] \in {" ", "\n", "\t", "NBSP"}

\* The bytes json.Marshal writes for a piece inside a string: <, > and & as
\* \u00XX, a newline or tab as two, U+00A0 as its two UTF-8 bytes.
JSONLen(p) ==
    CASE p \in {"<", ">", "&"} -> 6
      [] p \in {"\n", "\t", "NBSP"} -> 2
      [] p = "PAD" -> PadLen
      [] p \in {"&lt;", "&gt;"} -> 9
      [] p = "&amp;" -> 10
      [] p = "&nbsp;" -> 11
      [] p \in {"U1", "U2", "B1", "C1", "D1"} -> 2
      [] p = "" -> 0
      [] OTHER -> 1

RECURSIVE SumLen(_)
SumLen(text) == IF text = <<>> THEN 0 ELSE JSONLen(Head(text)) + SumLen(Tail(text))

\* len of {"type":"message","user":"","channel":"","text":""}
FrameOverhead == 51

\* len(wsMsg): the frame json.Marshal makes of the struct.
FrameLen(user, channel, text) ==
    FrameOverhead + JSONLen(user) + JSONLen(channel) + SumLen(text)

MaxFrameLen == 16 * 1024

\* A plausible slip: the cap tested with >=.
TooBig_Geq(n) == n >= MaxFrameLen

\* `if len(wsMsg) > 16*1024 { continue }`
TooBig(n) == n > MaxFrameLen

\* A Message was dropped: noted if a frame has been written before it.
Dropped(w) == IF w.any THEN [w EXCEPT !.dropped = TRUE] ELSE w

\* dispatchLoop: one Message from p.out up to the snapshot of p.wsConn taken
\* under wsConnMu for its frame, or to the `continue` that drops it.
DispatchOne(m) ==
    /\ ~crashed
    /\ dispatchPc = "recv"
    /\ LET rendered == Render(m.Message, m.ToUserID)
           text == Unescape(rendered)
           n == FrameLen(selfID, m.Room, text)
           out(a) == [action |-> a, msg |-> m, len |-> n, text |-> text,
                      ws |-> IF a = "write" THEN Snapshot(wsConn) ELSE 0]
       IN
       IF BadTemplate(m.Message)
       THEN crashed' = TRUE /\ lastOut' = out("panic") /\ UNCHANGED <<dispatchPc, writes>>
       ELSE IF Blank(rendered)
       THEN /\ lastOut' = out("blank") /\ writes' = Dropped(writes)
            /\ UNCHANGED <<dispatchPc, crashed>>
       ELSE IF TooBig(n)
       THEN /\ lastOut' = out("toobig") /\ writes' = Dropped(writes)
            /\ UNCHANGED <<dispatchPc, crashed>>
       ELSE lastOut' = out("write") /\ dispatchPc' = "write" /\ UNCHANGED <<crashed, writes>>
    /\ UNCHANGED <<ctorPc, wsURL, selfID, wsConn, err, usernames, alive, connURL,
                   intake, reconPc, reconWs, startup, everFailed, tickLog, lookups,
                   processOnce, calls, inOffer, nOffered, tasks,
                   attempt, handed, observed, staleOps>>

\* A plausible slip: no pause after a write.
AfterWrite_NoPause(ok) == "recv"

\* After fmt.Fprint(wsConn, wsMsg), whose result is discarded: time.Sleep.
AfterWrite(ok) == "sleep"

\* dispatchLoop: fmt.Fprint on the snapshot. A socket that is gone takes no
\* frame.
DispatchWrite ==
    /\ ~crashed
    /\ dispatchPc = "write"
    /\ LET ok == lastOut.ws \in alive IN
       /\ writes' = [any |-> TRUE, room |-> lastOut.msg.Room,
                     pauses |-> 0, dropped |-> FALSE,
                     gap |-> IF writes.any
                             THEN <<[pauses |-> writes.pauses, dropped |-> writes.dropped,
                                     room |-> writes.room]>>
                             ELSE <<>>]
       /\ dispatchPc' = AfterWrite(ok)
       /\ staleOps' = AfterIO("dispatch", lastOut.ws)
    /\ UNCHANGED <<ctorPc, wsURL, selfID, wsConn, err, usernames, alive, connURL,
                   intake, reconPc, reconWs, startup, everFailed, tickLog, lookups,
                   lastOut, botVars, attempt, handed, observed>>

\* dispatchLoop: the 1-second pause is over.
DispatchWake ==
    /\ ~crashed
    /\ dispatchPc = "sleep"
    /\ dispatchPc' = "recv"
    /\ writes' = [writes EXCEPT !.pauses = @ + 1]
    /\ UNCHANGED <<ctorPc, wsURL, selfID, wsConn, err, usernames, alive, connURL,
                   intake, reconPc, reconWs, startup, everFailed, tickLog, lookups,
                   lastOut, botVars, attempt, handed, observed, staleOps>>

\* ------------------------------------------------- the caller and the locks
\* p.Error(), called by the code that constructed the connection: a bare read
\* of p.err.
ErrorCall ==
    /\ ~crashed
    /\ ctorPc = "returned"
    /\ observed' = err
    /\ UNCHANGED <<ctorPc, wsURL, selfID, wsConn, err, usernames, alive, connURL,
                   intake, dispatchPc, reconPc, reconWs, startup, everFailed,
                   tickLog, lookups, lastOut, botVars,
                   attempt, writes, handed, staleOps>>

Access(who, field, write, lock) ==
    [who |-> who, field |-> field, write |-> write, lock |-> lock]

\* The accesses to wsConn, usernames and err that the next step of each
\* goroutine makes, with the mutex held around each (None: no mutex).
Accesses ==
    (IF ctorPc = "handshake" THEN {Access("Slack", "err", TRUE, None)} ELSE {}) \cup
    (IF ctorPc = "dial"
     THEN {Access("Slack", "err", TRUE, None), Access("Slack", "wsConn", TRUE, "wsConnMu")}
     ELSE {}) \cup
    (IF ctorPc = "start" THEN {Access("Slack", "err", FALSE, None)} ELSE {}) \cup
    (IF ctorPc = "returned" THEN {Access("caller", "err", FALSE, None)} ELSE {}) \cup
    (IF reconPc = "sleep" THEN {Access("reconnect", "wsConn", FALSE, "wsConnMu")} ELSE {}) \cup
    (IF reconPc = "handshake" THEN {Access("reconnect", "err", TRUE, None)} ELSE {}) \cup
    (IF reconPc = "dial"
     THEN {Access("reconnect", "err", TRUE, None),
           Access("reconnect", "wsConn", TRUE, "wsConnMu")}
     ELSE {}) \cup
    (IF intake.pc = "snap" THEN {Access("intake", "wsConn", FALSE, "wsConnMu")} ELSE {}) \cup
    (IF intake.pc = "lookup"
     THEN {Access("intake", "usernames", FALSE, "mu"),
           Access("intake", "usernames", TRUE, "mu"),
           Access("intake", "usernames", FALSE, None)}
     ELSE {}) \cup
    (IF dispatchPc = "recv" THEN {Access("dispatch", "wsConn", FALSE, "wsConnMu")} ELSE {})

\* Two goroutines are about to access one field, one of them writing, with
\* no mutex held by both.
Race ==
    \E a, b \in Accesses :
        /\ a.who # b.who /\ a.field = b.field
        /\ a.write \/ b.write
        /\ a.lock = None \/ a.lock # b.lock

\* --------------------------------------------------------- specifications
\* The loops of a connection share p.wsConn and nothing else: the supervisor
\* never touches the cache, the intake loop never writes the handle. Each is
\* checked with the constructor and the environment.

\* Slack() and the reconnect supervisor.
NextConn ==
    \/ CtorHandshake
    \/ CtorDial
    \/ CtorStart
    \/ \E c \in 1..MaxConns : KillConn(c)
    \/ ReconTick
    \/ ReconProbe
    \/ ReconHandshake
    \/ ReconDial

SpecConn == Init /\ [][NextConn]_vars

\* Slack() and the intake loop with its username lookups.
NextIntake ==
    \/ CtorHandshake
    \/ CtorDial
    \/ CtorStart
    \/ \E c \in 1..MaxConns : KillConn(c)
    \/ IntakeSnap
    \/ IntakeDecode
    \/ IntakeLookup
    \/ IntakeSend

SpecIntake == Init /\ [][NextIntake]_vars

\* Slack(), the reconnect supervisor and the dispatch loop.
NextDispatch ==
    \/ NextConn
    \/ \E m \in OutMsgs : DispatchOne(m)
    \/ DispatchWrite
    \/ DispatchWake

SpecDispatch == Init /\ [][NextDispatch]_vars

\* Slack() and the dispatch loop, on the socket the constructor dialed.
NextOut ==
    \/ CtorHandshake
    \/ CtorDial
    \/ CtorStart
    \/ \E c \in 1..MaxConns : KillConn(c)
    \/ \E m \in OutMsgs : DispatchOne(m)
    \/ DispatchWrite
    \/ DispatchWake

SpecOut == Init /\ [][NextOut]_vars

\* Slack(), the supervisor and the caller reading the last error.
NextAccess ==
    \/ NextConn
    \/ ErrorCall

SpecAccess == Init /\ [][NextAccess]_vars

\* The one Message the dispatch loop is handed in SpecHandle.
Hi == Message("C1", "", "", "U1", "alice", <<"h", "i">>, FALSE)

\* Slack(), the supervisor and the two loops doing I/O on the handle: the
\* socket brings no Message frame, the dispatch loop is handed Hi.
NextHandle ==
    \/ NextConn
    \/ IntakeSnap
    \/ IntakeDecodeOf(ControlFrames)
    \/ DispatchOne(Hi)
    \/ DispatchWrite
    \/ DispatchWake

SpecHandle == Init /\ [][NextHandle]_vars

\* ------------------------------------------------- claims on the connection
StartupFailed == Len(startup) = 2 /\ (startup[1] # "ok" \/ startup[2] = "fail")

\* C5 (as claimed): after a failed startup lastError is set when Slack()
\* returns and the supervisor keeps running, retrying handshake and dial.
C5_SupervisorKeepsRetrying ==
    (StartupFailed /\ ctorPc \in {"start", "returned"}) =>
        /\ err # "nil"
        /\ reconPc # "stopped"

\* C5 (amended): after a failed startup lastError is set when Slack() returns
\* and stays set, no socket handle exists, the intake and dispatch loops are
\* not started, and the supervisor, finding no handle at its first tick,
\* stops without a liveness check, a handshake or a dial.
C5_FailedStartupIsTerminal ==
    (StartupFailed /\ ctorPc \in {"start", "returned"}) =>
        /\ err # "nil"
        /\ wsConn = 0 /\ connURL = <<>>
        /\ intake.pc = "off" /\ dispatchPc = "off"
        /\ reconPc \in {"off", "sleep", "stopped"}
        /\ ctorPc = "returned" => reconPc \in {"sleep", "stopped"}
        /\ tickLog = <<>>

\* The handshake answered ok: false, the dial then found no URL, and the
\* supervisor has stopped at its first tick.
C5_Witness ==
    /\ startup = <<"okfalse", "fail">>
    /\ ctorPc = "returned" /\ err = "nourl"
    /\ reconPc = "stopped"

\* C6 (as claimed): once a handshake or a dial has failed, lastError is
\* non-nil in every state the caller of Slack() can observe.
C6_LastErrorSticky ==
    (ctorPc = "returned" /\ everFailed) => err # "nil"

C20_Inv ==
    /\ connURL # <<>> => wsConn = Len(connURL)
    /\ (Len(startup) = 2 /\ startup[2] = "ok") => wsConn # 0 /\ reconPc # "stopped"
    /\ reconPc = "stopped" =>
         wsConn = 0 /\ connURL = <<>> /\ Len(startup) = 2 /\ startup[2] = "fail"
    /\ (reconPc \in {"sleep", "probe"} /\ Len(tickLog) = 3 /\ attempt.result = "failed") =>
         /\ wsConn # 0 /\ wsConn \notin alive
         /\ reconPc = "probe" => reconWs = wsConn

C20_Step ==
    /\ wsConn # 0 => wsConn' # 0
    /\ wsConn' # wsConn =>
         /\ connURL' = Append(connURL, wsURL) /\ wsConn' = Len(connURL')
         /\ wsConn' \in alive'
    /\ (reconPc = "sleep" /\ reconPc' # "sleep" /\ wsConn # 0) => reconPc' = "probe"
    /\ (reconPc = "probe" /\ reconPc' # "probe" /\ reconWs \notin alive) =>
         reconPc' = "handshake"
    /\ (reconPc = "handshake" /\ reconPc' # "handshake") => reconPc' = "dial"
    /\ (reconPc = "dial" /\ reconPc' # "dial") => reconPc' = "sleep"

\* C20: a socket handle once set is never absent again and changes only to a
\* newly dialed socket; after a successful initial dial the supervisor never
\* stops, and after a failed liveness write it runs handshake and dial on
\* that tick and, the handle being still the dead socket, on every following
\* tick until a dial succeeds; it stops only if no handle was ever stored.
C20_HandleNeverAbsentAgain == []C20_Inv /\ [][C20_Step]_vars

\* After a successful startup a re-dial failed, the supervisor tried again
\* on a later tick, and that dial brought the second socket.
C20_Witness ==
    /\ startup = <<"ok", "ok">>
    /\ err = "dial"
    /\ attempt.result = "ok" /\ wsConn = 2
    /\ reconPc = "sleep"

\* C18 (as claimed): whatever Message the dispatch loop consumes, it drops
\* or writes it and goes on to the next; neither the loop nor the process
\* ends.
C18_DispatchLoopSurvives ==
    /\ ~crashed
    /\ lastOut.action \in {None, "blank", "toobig", "write"}
    /\ ctorPc = "returned" /\ startup = <<"ok", "ok">> => dispatchPc # "off"

\* C14 (as claimed): after a handshake that failed no socket dial is made
\* until a later handshake has succeeded.
C14_NoDialAfterFailedHandshake ==
    attempt.hs = "failed" => attempt.dialed = ""

\* The handle a loop holds is the handle now or one dialed before it.
HeldHandles ==
    /\ intake.pc = "decode" => intake.ws \in 1..wsConn
    /\ dispatchPc = "write" => lastOut.ws \in 1..wsConn
    /\ reconPc = "probe" => reconWs \in 1..wsConn

C15_Inv ==
    /\ \A a \in Accesses : a.field = "wsConn" => a.lock = "wsConnMu"
    /\ HeldHandles
    /\ \A l \in Loops : staleOps[l] <= 1
    /\ (intake.pc = "decode" /\ staleOps["intake"] = 1) => intake.ws = wsConn
    /\ (dispatchPc = "write" /\ staleOps["dispatch"] = 1) => lastOut.ws = wsConn

\* A step that takes a snapshot takes the handle as it is now.
C15_Step ==
    /\ (intake.pc = "snap" /\ intake'.pc = "decode") => intake'.ws = wsConn
    /\ (dispatchPc = "recv" /\ dispatchPc' = "write") => lastOut'.ws = wsConn
    /\ (reconPc = "sleep" /\ reconPc' # "sleep") => reconWs' = wsConn

\* C15: the socket handle is read and written under wsConnMu only; once a
\* re-dial has stored a new handle every snapshot taken afterwards is the
\* new handle, and a loop does I/O on the old one at most once more, with
\* the snapshot it already held.
C15_SnapshotsFollowTheHandle == []C15_Inv /\ [][C15_Step]_vars

\* The intake loop decoded once on the first socket after the second was
\* dialed and now holds the second; the dispatch loop, which took the first
\* before the re-dial, is about to write to it.
C15_Witness ==
    /\ wsConn = 2
    /\ staleOps["intake"] = 1 /\ intake.pc = "decode" /\ intake.ws = 2
    /\ dispatchPc = "write" /\ lastOut.ws = 1

\* C16 (as claimed): no two goroutines access the socket handle, the cache
\* or the last error at once, one of them writing, without a mutex held by
\* both.
C16_AccessesSerialized == ~Race

\* C7: after a failed liveness write the supervisor calls handshake once and
\* then dial once before its next liveness check; after a successful one it
\* calls neither.
C7_OneHandshakeOneDialPerFailedProbe ==
    /\ reconPc \in {"sleep", "probe"} =>
         tickLog \in { <<>>, <<"probe ok">>, <<"probe failed", "handshake", "dial">> }
    /\ reconPc = "handshake" => tickLog = <<"probe failed">>
    /\ reconPc = "dial" => tickLog = <<"probe failed", "handshake">>
    /\ reconPc \in {"off", "stopped"} => tickLog = <<>>

\* A liveness write failed, the handshake and the dial that followed brought
\* a second socket, and the supervisor is about to check again.
C7_Witness ==
    /\ reconPc = "probe"
    /\ tickLog = <<"probe failed", "handshake", "dial">>
    /\ wsConn = 2 /\ reconWs = 2

C8_Inv ==
    \A id \in UserIDs :
        /\ lookups[id].oks <= 1
        /\ lookups[id].oks = 1 =>
             id \in DOMAIN usernames /\ usernames[id] = RealName(id)

C8_Step ==
    \A id \in UserIDs :
        lookups[id].oks >= 1 =>
            /\ lookups'[id] = lookups[id]
            /\ (intake'.pc = "send" /\ intake.pc = "lookup" /\ intake.user = id) =>
                 intake'.hit /\ intake'.name = RealName(id)

\* C8: once a lookup for a user id has succeeded no further lookup request is
\* issued for that id; every later resolution is a cache hit giving the name.
C8_OneSuccessfulLookupPerId == []C8_Inv /\ [][C8_Step]_vars

\* U1 was looked up twice, the second time with success, and a later frame of
\* U1 got its name from the cache.
C8_Witness ==
    /\ lookups["U1"].reqs = 2 /\ lookups["U1"].oks = 1
    /\ intake.pc = "send" /\ intake.user = "U1" /\ intake.hit
    /\ intake.name = "alice"

\* What the intake loop has handed in for the last frame it decoded.
HandedFor(f, msgs) ==
    IF f.type # "message"
    THEN msgs = <<>> /\ intake.pc \in {"snap", "decode"}
    ELSE /\ Len(msgs) <= 1
         /\ msgs = <<>> <=> intake.pc \in {"lookup", "send"}
         /\ msgs # <<>> => intake.pc \in {"snap", "decode"}
         /\ \A i \in DOMAIN msgs :
              /\ msgs[i].Room = f.channel
              /\ msgs[i].FromUserID = f.user
              /\ msgs[i].Message = f.text

\* C17: the intake loop hands a Message to the inbound channel only for a
\* decoded frame of type "message", one per such frame, with the frame's
\* room, sender id and text; a frame of another type or a decode error gives
\* no Message and does not end the loop, which goes back to its snapshot.
C17_OnlyMessageFramesHandedIn ==
    /\ handed.frame = <<>> => handed.msgs = <<>>
    /\ handed.frame # <<>> => intake.pc # "off"
    /\ \A i \in DOMAIN handed.frame : HandedFor(handed.frame[i], handed.msgs)
    /\ intake.pc \in {"lookup", "send"} =>
         handed.frame # <<>> /\ handed.frame[1].type = "message"

\* A frame of type "message" from a direct channel was handed in as one
\* Message, and the loop has taken a new snapshot and is decoding again.
C17_Witness ==
    /\ handed.frame # <<>> /\ handed.frame[1].type = "message"
    /\ handed.frame[1].channel = "D1"
    /\ Len(handed.msgs) = 1
    /\ handed.msgs[1].Direct /\ handed.msgs[1].Message = <<"y", "o">>
    /\ handed.msgs[1].FromUserName = "bob"
    /\ intake.pc = "decode"

\* C9 (as claimed): after a lookup that did not succeed the cache holds no
\* entry for the id (so the next call looks it up again).
C9_FailedLookupNotCached ==
    \A id \in UserIDs :
        lookups[id].last \in {"neterr", "badjson", "okfalse"} =>
            id \notin DOMAIN usernames

\* C10: the dispatch loop writes no frame longer than 16384 bytes: it drops a
\* longer one without a write, and writes a frame of 16384 bytes or fewer
\* whose text is not blank.
C10_NoOversizedFrameWritten ==
    /\ lastOut.action = "write" => lastOut.len <= 16384
    /\ lastOut.action = "toobig" => lastOut.len > 16384
    /\ lastOut.len > 16384 => lastOut.action \in {"toobig", "blank", "panic"}
    /\ (lastOut.action \notin {None, "panic"} /\ lastOut.len <= 16384
        /\ ~Blank(lastOut.text)) => lastOut.action = "write"
    /\ lastOut.action \in {"toobig", "blank"} => dispatchPc = "recv"
    /\ \A k \in 0..2 :
         (lastOut.action # None /\ lastOut.msg.Message = <<"PAD">> \o [i \in 1..k |-> "a"])
            => lastOut.len = 51 + 2 + 2 + PadLen + k

\* A frame one byte over the cap was dropped.
C10_Witness ==
    /\ lastOut.action = "toobig" /\ lastOut.len = 16385
    /\ dispatchPc = "recv"

\* The last Message was written: the dispatch loop has made its write.
Written == lastOut.action = "write" /\ dispatchPc \in {"sleep", "recv"}

\* C11 (as claimed): no frame whose text, after the mention substitution and
\* the HTML-unescaping, is empty once trimmed is written to the socket.
C11_NoBlankFrameWritten ==
    Written => ~Blank(lastOut.text)

\* C12: two consecutive frame writes of the dispatch loop are separated by a
\* full pause, whatever rooms they address and whatever was dropped between
\* them; the loop pauses after every write and after nothing else.
C12_PauseBetweenWrites ==
    /\ \A i \in DOMAIN writes.gap : writes.gap[i].pauses >= 1
    /\ dispatchPc = "sleep" => writes.any /\ writes.pauses = 0
    /\ (dispatchPc \in {"recv", "write"} /\ writes.any) => writes.pauses = 1

\* A frame went to one room, the pause passed, a Message was dropped, and a
\* frame has now gone to another room.
C12_Witness ==
    /\ dispatchPc = "sleep"
    /\ writes.gap # <<>>
    /\ writes.gap[1].dropped /\ writes.gap[1].room # writes.room
    /\ writes.gap[1].pauses = 1

====
